---- MODULE Spec2Model ----
(***************************************************************************)
(* Model of the bubblegum NIF (src/native/bubblegum/src/lib.rs): the three *)
(* operations create_tree_config, mint_to_collection_v1 and transfer, the  *)
(* helpers parse_pubkey, parse_keypair, convert_metadata_args and          *)
(* send_transaction, and the remote node they talk to.                     *)
(*                                                                         *)
(* Text is a sequence of one-character strings, bytes are a sequence of    *)
(* 0..255.  An Erlang term returned to the caller is a tagged record:      *)
(* a tuple {a, b} is [term |-> "tuple", elems |-> <<a, b>>] and a map is   *)
(* [term |-> "map", entries |-> f] with f the key -> value function.       *)
(* A formatted message "prefix{detail}" is kept as <<prefix, detail>>.     *)
(***************************************************************************)
EXTENDS Integers, Sequences, FiniteSets, TLC

(***************************************************************************)
(* Base-58 text (crate bs58, used at lines 154, 211, 279 and inside        *)
(* Pubkey::from_str / Pubkey::to_string).                                  *)
(***************************************************************************)
Alphabet ==
  <<"1","2","3","4","5","6","7","8","9","A","B","C","D","E","F","G","H","J",
    "K","L","M","N","P","Q","R","S","T","U","V","W","X","Y","Z","a","b","c",
    "d","e","f","g","h","i","j","k","m","n","o","p","q","r","s","t","u","v",
    "w","x","y","z">>

Radix == Len(Alphabet)

\* The decode table of the alphabet: the digit of a character, NoDigit if none.
NoDigit == 255

DigitOf(c) ==
  IF \E i \in 1..Radix : Alphabet[i] = c
    THEN (CHOOSE i \in 1..Radix : Alphabet[i] = c) - 1
    ELSE NoDigit

\* The digits a leftover carry adds at the most significant end
\* (while val > 0: push val % base, val /= base).
RECURSIVE CarryDigits(_, _)
CarryDigits(val, base) ==
  IF val = 0 THEN <<>> ELSE <<val % base>> \o CarryDigits(val \div base, base)

\* The inner loop of decode_into / encode_into over num[lo..hi]: each digit of
\* the little-endian number becomes (digit * mul + carry) % base and hands the
\* quotient on.  The loop runs left to right; the range is split in halves, the
\* left half evaluated first, only to keep the evaluation shallow.
RECURSIVE MulAddRange(_, _, _, _, _, _)
MulAddRange(num, mul, base, lo, hi, carry) ==
  IF lo > hi THEN [out |-> <<>>, carry |-> carry]
  ELSE IF lo = hi
    THEN LET v == carry + num[lo] * mul
         IN  [out |-> <<v % base>>, carry |-> v \div base]
  ELSE LET mid == (lo + hi) \div 2
           l == MulAddRange(num, mul, base, lo, mid, carry)
           r == MulAddRange(num, mul, base, mid + 1, hi, l.carry)
       IN  IF l.carry >= 0
             THEN [out |-> l.out \o r.out, carry |-> r.carry]
             ELSE l

\* num * mul + val, num little-endian in `base`.
MulAdd(num, mul, base, val) ==
  LET r == MulAddRange(num, mul, base, 1, Len(num), val)
  IN  r.out \o CarryDigits(r.carry, base)

\* The outer loop over input[lo..hi], one MulAdd per input digit, starting
\* from acc.
RECURSIVE Convert(_, _, _, _, _, _)
Convert(input, mul, base, lo, hi, acc) ==
  IF lo > hi THEN acc
  ELSE IF lo = hi THEN MulAdd(acc, mul, base, input[lo])
  ELSE LET mid == (lo + hi) \div 2
           left == Convert(input, mul, base, lo, mid, acc)
       IN  IF Len(left) >= 0
             THEN Convert(input, mul, base, mid + 1, hi, left)
             ELSE left

\* The number of leading elements of q equal to z.
LeadingCount(q, z) ==
  LET other == {i \in 1..Len(q) : q[i] # z}
  IN  IF other = {} THEN Len(q)
      ELSE (CHOOSE i \in other : \A j \in other : i <= j) - 1

Reverse(q) == [i \in 1..Len(q) |-> q[Len(q) + 1 - i]]

\* bs58::decode(text).into_vec(): fails at the first character outside the
\* alphabet; else the bytes, most significant first, with one zero byte for
\* every leading '1'.
DecodeDigits(text, digits) ==
  IF \E i \in 1..Len(digits) : digits[i] = NoDigit
    THEN LET first == CHOOSE i \in 1..Len(digits) :
                        /\ digits[i] = NoDigit
                        /\ \A j \in 1..(i - 1) : digits[j] # NoDigit
         IN  [ok |-> FALSE,
              err |-> "provided string contained invalid character '"
                      \o text[first] \o "' at byte " \o ToString(first - 1)]
    ELSE [ok |-> TRUE,
          bytes |-> Reverse(Convert(digits, Radix, 256, 1, Len(digits), <<>>)
                            \o [i \in 1..LeadingCount(digits, 0) |-> 0])]

Bs58Decode(text) == DecodeDigits(text, [i \in 1..Len(text) |-> DigitOf(text[i])])

\* bs58::encode(bytes).into_string().
TextOfDigits(digits) == [i \in 1..Len(digits) |-> Alphabet[digits[i] + 1]]

Bs58Encode(bytes) ==
  TextOfDigits(Reverse(Convert(bytes, 256, Radix, 1, Len(bytes), <<>>)
                       \o [i \in 1..LeadingCount(bytes, 0) |-> 0]))

(***************************************************************************)
(* Sizes of the ledger's types.                                            *)
(***************************************************************************)
PUBKEY_BYTES == 32
MAX_BASE58_LEN == 44
KEYPAIR_LENGTH == 64

(***************************************************************************)
(* The texts and keys the callers pass in.                                 *)
(***************************************************************************)
\* Addresses: the system program, the bubblegum program, and two malformed
\* ones (a character outside the alphabet; too few bytes).
AddrSystem ==
  <<"1","1","1","1","1","1","1","1","1","1","1","1","1","1","1","1",
    "1","1","1","1","1","1","1","1","1","1","1","1","1","1","1","1">>

AddrBubblegum ==
  <<"B","G","U","M","A","p","9","G","q","7","i","T","E","u","i","z","y","4",
    "p","q","a","x","s","T","y","U","C","B","K","6","8","M","D","f","K","7",
    "5","2","s","a","R","P","U","Y">>

AddrBadChar == <<"n","o","t","-","a","n","-","a","d","d","r","e","s","s">>

AddrShort == <<"a","b","c">>

GoodAddrs == {AddrSystem, AddrBubblegum}

AddrInputs == GoodAddrs \cup {AddrBadChar, AddrShort}

\* Payer keys: a 64-byte key pair, text with a character outside the alphabet,
\* an address passed where a key pair is expected (32 bytes), and 64 bytes
\* whose public half is no curve point.
PayerGood ==
  <<"3","y","6","k","d","n","7","G","Y","Y","o","s","6","8","4","a","1","w",
    "U","G","k","Q","d","u","3","k","R","s","1","g","V","T","S","E","B","x",
    "6","r","d","v","j","6","w","R","e","i","V","i","u","j","R","B","R","R",
    "E","5","w","D","V","m","Z","o","w","P","2","L","d","w","J","y","3","C",
    "c","1","E","n","a","Q","W","V","o","6","6","6","U","1","s","M">>

PayerBadBs58 == <<"0","x","d","e","a","d","b","e","e","f">>

PayerShort == AddrBubblegum

PayerOffCurve ==
  <<"4","X","T","k","o","Y","R","x","u","X","i","A","U","7","2","A","V","N",
    "B","p","f","b","x","B","K","j","k","G","y","w","H","b","3","j","B","E",
    "A","s","L","j","K","v","B","t","J","T","X","Q","p","v","x","t","A","A",
    "y","U","A","C","N","e","W","2","S","4","T","F","B","a","Y","L","B","F",
    "b","R","a","b","G","o","i","6","6","5","V","T","D","p","B","v">>

PayerInputs == {PayerGood, PayerBadBs58, PayerShort, PayerOffCurve}

\* The key pairs Keypair::new() may draw (line 165), as their 64 bytes.
TreeKeyBytes1 ==
  <<150,247,250,254,187,190,84,254,240,237,150,195,188,173,62,1,214,235,18,
    224,244,25,37,30,12,254,24,53,163,141,241,79,100,86,171,88,193,200,16,198,
    199,226,213,73,94,255,250,38,126,18,145,134,128,106,174,223,221,157,51,243,
    203,99,166,9>>

TreeKeyBytes2 ==
  <<160,125,40,118,125,166,72,106,218,242,36,46,188,252,240,54,213,244,74,89,
    57,135,42,100,82,182,40,94,208,243,126,96,225,23,203,147,225,165,32,80,68,
    1,249,26,91,5,39,73,157,85,198,101,207,108,210,180,85,19,190,123,172,183,
    20,71>>

FreshKeyBytes == {TreeKeyBytes1, TreeKeyBytes2}

\* Option<T>: None is <<>>, Some(v) is <<v>>.  Result<T, E>: Ok / Err.
None == <<>>
Some(v) == <<v>>
Ok(v) == [ok |-> TRUE, val |-> v]
Err(e) == [ok |-> FALSE, err |-> e]

(***************************************************************************)
(* Library calls on texts and bytes.  The conversions are computed once    *)
(* for the texts and keys of the model and looked up afterwards.           *)
(***************************************************************************)
Bs58DecodeTable == [text \in PayerInputs |-> Bs58Decode(text)]

\* bs58::decode(text).into_vec()
bs58_decode_into_vec(text) == Bs58DecodeTable[text]

\* <Pubkey as FromStr>::from_str
PubkeyOfDecoded(d) ==
  IF ~d.ok THEN Err("Invalid Base58 string")
  ELSE IF Len(d.bytes) # PUBKEY_BYTES THEN Err("String is the wrong size")
  ELSE Ok(d.bytes)

ParsePubkeyText(text) ==
  IF Len(text) > MAX_BASE58_LEN THEN Err("String is the wrong size")
  ELSE PubkeyOfDecoded(Bs58Decode(text))

PubkeyTable == [text \in AddrInputs |-> ParsePubkeyText(text)]

Pubkey_from_str(text) == PubkeyTable[text]

\* The public halves of the key pairs of the model.  Keypair::from_bytes
\* accepts a public half only if it decompresses to a point of the curve;
\* the points of the model are these.
PublicHalf(bytes) == SubSeq(bytes, KEYPAIR_LENGTH - PUBKEY_BYTES + 1, KEYPAIR_LENGTH)

CurvePoints ==
  {PublicHalf(b) : b \in FreshKeyBytes} \cup {PublicHalf(Bs58Decode(PayerGood).bytes)}

\* Keypair::from_bytes
Keypair_from_bytes(bytes) ==
  IF Len(bytes) # KEYPAIR_LENGTH
    THEN Err("signature error: Keypair must be 64 bytes in length")
  ELSE IF PublicHalf(bytes) \notin CurvePoints
    THEN Err("signature error: Cannot decompress Edwards point")
  ELSE Ok([secret |-> SubSeq(bytes, 1, KEYPAIR_LENGTH - PUBKEY_BYTES),
           public |-> PublicHalf(bytes)])

\* Signer::pubkey
pubkey(keypair) == keypair.public

PubkeyTextTable == [pk \in CurvePoints |-> Bs58Encode(pk)]

\* Pubkey::to_string
Pubkey_to_string(pk) == PubkeyTextTable[pk]

(***************************************************************************)
(* BubblegumError and its Display (thiserror).                             *)
(***************************************************************************)
BubblegumError(variant, detail) == [variant |-> variant, detail |-> detail]

ErrorFormat ==
  [InvalidPublicKey   |-> "Invalid public key: ",
   InvalidKeypair     |-> "Invalid keypair: ",
   SolanaClientError  |-> "Solana client error: ",
   TransactionError   |-> "Transaction error: ",
   SerializationError |-> "Serialization error: "]

to_string(e) == <<ErrorFormat[e.variant], e.detail>>

\* Result::map_err with one of the variants of BubblegumError.
map_err(r, variant) == IF r.ok THEN r ELSE Err(BubblegumError(variant, r.err))

parse_pubkey(pubkey_str) == map_err(Pubkey_from_str(pubkey_str), "InvalidPublicKey")

\* A key-pair failure classified as an address failure.
parse_keypair_as_pubkey_error(keypair_bytes) ==
  map_err(Keypair_from_bytes(keypair_bytes), "InvalidPublicKey")

parse_keypair(keypair_bytes) == map_err(Keypair_from_bytes(keypair_bytes), "InvalidKeypair")

(***************************************************************************)
(* convert_metadata_args.  unwrap() on an Err panics: the conversion       *)
(* then yields no value at all, [panicked |-> TRUE].                       *)
(***************************************************************************)
Returned(v) == [panicked |-> FALSE, val |-> v]
Panicked(msg) == [panicked |-> TRUE, msg |-> msg]

unwrap(r) ==
  IF r.ok THEN Returned(r.val)
  ELSE Panicked(<<"called Result::unwrap() on an Err value: ", r.err>>)

\* A Creator that drops the input's verified flag.
Creator_unverified(c, address) ==
  IF address.panicked THEN address
  ELSE Returned([address |-> address.val, verified |-> FALSE, share |-> c.share])

\* The Creator built by the closure of the map over args.creators, given the
\* unwrapped address (lines 88-92).
Creator(c, address) ==
  IF address.panicked THEN address
  ELSE Returned([address |-> address.val, verified |-> c.verified, share |-> c.share])

convert_creator(c) == Creator(c, unwrap(parse_pubkey(c.address)))

\* .collect() over the closure's results: they are produced in order and the
\* first panic ends the conversion.
collect(each) ==
  IF \E i \in 1..Len(each) : each[i].panicked
    THEN each[CHOOSE i \in 1..Len(each) :
                /\ each[i].panicked
                /\ \A j \in 1..(i - 1) : ~each[j].panicked]
    ELSE Returned([i \in 1..Len(each) |-> each[i].val])

\* Lines 87-93.
convert_creators(creators) ==
  collect([i \in 1..Len(creators) |-> convert_creator(creators[i])])

\* A Collection marked verified.
Collection_verified(key) ==
  IF key.panicked THEN key
  ELSE Returned(Some([key |-> key.val, verified |-> TRUE]))

\* The Collection built at lines 96-99, given the unwrapped key.
Collection(key) ==
  IF key.panicked THEN key
  ELSE Returned(Some([key |-> key.val, verified |-> FALSE]))

\* Lines 95-102.
convert_collection(collection) ==
  IF collection = None THEN Returned(None)
  ELSE Collection(unwrap(parse_pubkey(collection[1])))

\* A usage limit of zero where the input has none.
convert_uses_zero_for_none(uses) ==
  IF uses = None
    THEN Some([use_method |-> "Multiple", remaining |-> 0, total |-> 0])
    ELSE Some([use_method |-> "Multiple", remaining |-> uses[1], total |-> uses[1]])

\* Lines 114-118.
convert_uses(uses) ==
  IF uses = None THEN None
  ELSE Some([use_method |-> "Multiple", remaining |-> uses[1], total |-> uses[1]])

\* Lines 104-121, given the creators and the collection.
MetadataArgs(args, creators, collection) ==
  IF creators.panicked THEN creators
  ELSE IF collection.panicked THEN collection
  ELSE Returned(Ok(
    [name |-> args.name,
     symbol |-> args.symbol,
     uri |-> args.uri,
     seller_fee_basis_points |-> args.seller_fee_basis_points,
     primary_sale_happened |-> args.primary_sale_happened,
     is_mutable |-> args.is_mutable,
     edition_nonce |-> args.edition_nonce,
     creators |-> creators.val,
     collection |-> collection.val,
     uses |-> convert_uses(args.uses),
     token_program_version |-> "Original",
     token_standard |-> Some("NonFungible")]))

\* The value is Ok(MetadataArgs) whenever the function returns.
convert_metadata_args(args) ==
  MetadataArgs(args, convert_creators(args.creators),
               convert_collection(args.collection))

(***************************************************************************)
(* The instruction builders of mpl_bubblegum, as the fields the code sets: *)
(* an instruction is the builder's name and the values given to it.        *)
(***************************************************************************)
Instruction(builder, fields) == [builder |-> builder, fields |-> fields]

\* A create-tree instruction that carries the canopy depth.
create_tree_ix_with_canopy_depth(payer, tree_pubkey, max_depth, max_buffer_size, canopy_depth, public) ==
  Instruction("CreateTreeConfigBuilder",
    [payer |-> pubkey(payer),
     merkle_tree |-> tree_pubkey,
     tree_creator |-> pubkey(payer),
     max_depth |-> max_depth,
     max_buffer_size |-> max_buffer_size,
     canopy_depth |-> canopy_depth,
     public |-> public])

\* A create-tree instruction whose tree account is the payer's address.
create_tree_ix_payer_as_tree(payer, tree_pubkey, max_depth, max_buffer_size, canopy_depth, public) ==
  Instruction("CreateTreeConfigBuilder",
    [payer |-> pubkey(payer),
     merkle_tree |-> pubkey(payer),
     tree_creator |-> pubkey(payer),
     max_depth |-> max_depth,
     max_buffer_size |-> max_buffer_size,
     public |-> public])

\* Lines 172-179.
create_tree_ix(payer, tree_pubkey, max_depth, max_buffer_size, canopy_depth, public) ==
  Instruction("CreateTreeConfigBuilder",
    [payer |-> pubkey(payer),
     merkle_tree |-> tree_pubkey,
     tree_creator |-> pubkey(payer),
     max_depth |-> max_depth,
     max_buffer_size |-> max_buffer_size,
     public |-> public])

\* Lines 242-249.
mint_ix(payer, tree_pubkey, collection_pubkey, metadata) ==
  Instruction("MintToCollectionV1Builder",
    [payer |-> pubkey(payer),
     merkle_tree |-> tree_pubkey,
     tree_creator_or_delegate |-> pubkey(payer),
     collection_mint |-> collection_pubkey,
     collection_authority |-> pubkey(payer),
     metadata |-> metadata])

\* A transfer instruction that requires the leaf owner's signature.
transfer_ix_leaf_owner_signs(tree_pubkey, leaf_owner, new_owner, asset_id) ==
  Instruction("TransferBuilder",
    [merkle_tree |-> tree_pubkey,
     leaf_owner |-> [pubkey |-> leaf_owner, as_signer |-> TRUE],
     new_leaf_owner |-> new_owner])

\* A transfer instruction that carries the asset id.
transfer_ix_with_asset_id(tree_pubkey, leaf_owner, new_owner, asset_id) ==
  Instruction("TransferBuilder",
    [merkle_tree |-> tree_pubkey,
     leaf_owner |-> [pubkey |-> leaf_owner, as_signer |-> FALSE],
     new_leaf_owner |-> new_owner,
     asset_id |-> asset_id])

\* Lines 314-318.
transfer_ix(tree_pubkey, leaf_owner, new_owner, asset_id) ==
  Instruction("TransferBuilder",
    [merkle_tree |-> tree_pubkey,
     leaf_owner |-> [pubkey |-> leaf_owner, as_signer |-> FALSE],
     new_leaf_owner |-> new_owner])

(***************************************************************************)
(* Transactions (send_transaction, lines 124-144).                         *)
(***************************************************************************)
\* Transaction::new_with_payer(&instructions, Some(&payer.pubkey()))
new_with_payer(instructions, payer_pubkey) ==
  [fee_payer |-> payer_pubkey,
   instructions |-> instructions,
   recent_blockhash |-> None,
   signed_by |-> <<>>]

\* The signers with the payer last.
all_signers_payer_last(payer, signers) == signers \o <<payer>>

\* Lines 136-137.
all_signers(payer, signers) == <<payer>> \o signers

\* transaction.sign(&all_signers, recent_blockhash): the transaction carries
\* the blockhash and one signature per signer, in the order of the signers.
sign(transaction, keypairs, recent_blockhash) ==
  [transaction EXCEPT
     !.recent_blockhash = Some(recent_blockhash),
     !.signed_by = [i \in 1..Len(keypairs) |-> pubkey(keypairs[i])]]

\* The signature a confirmed transaction is known by: its first one.
Signature(transaction) ==
  [signer |-> transaction.signed_by[1],
   blockhash |-> transaction.recent_blockhash[1],
   builders |-> [i \in 1..Len(transaction.instructions) |->
                   transaction.instructions[i].builder]]

\* Signature::to_string
Signature_to_string(signature) == [base58_of |-> signature]

(***************************************************************************)
(* Terms handed back to the host.                                          *)
(***************************************************************************)
ErlTuple(a, b) == [term |-> "tuple", elems |-> <<a, b>>]
ErlMap(entries) == [term |-> "map", entries |-> entries]

\* (atoms::error(), message).encode(env)
error_tuple(message) == ErlTuple("error", message)

\* The Err arm of the match on send_transaction (lines 195-199).
error_map(e) == ErlMap([error |-> to_string(e)])

\* The Ok arms (lines 183-194, 253-262, 322-331).
ok_map(fields) == ErlMap([ok |-> ErlMap(fields)])

(***************************************************************************)
(* The arguments the host passes.                                          *)
(***************************************************************************)
MaxCreators == 2

RpcUrls == {"http://127.0.0.1:8899"}

CreatorInputs ==
  {[address |-> AddrSystem, verified |-> TRUE, share |-> 60],
   [address |-> AddrBubblegum, verified |-> FALSE, share |-> 40],
   [address |-> AddrBadChar, verified |-> FALSE, share |-> 0]}

CreatorLists == UNION {[1..n -> CreatorInputs] : n \in 0..MaxCreators}

MetadataInputs ==
  [name : {"Asset"}, symbol : {"AST"}, uri : {"https://example.com/a.json"},
   seller_fee_basis_points : {500},
   primary_sale_happened : {FALSE},
   is_mutable : {TRUE},
   edition_nonce : {None},
   creators : CreatorLists,
   collection : {None, Some(AddrBubblegum), Some(AddrShort)},
   uses : {None, Some(0), Some(5)}]

CreateTreeArgs ==
  [payer_keypair_bs58 : PayerInputs, max_depth : {14, 20}, max_buffer_size : {64},
   canopy_depth : {0, 10}, public : BOOLEAN, rpc_url : RpcUrls]

MintArgs ==
  [payer_keypair_bs58 : PayerInputs,
   tree_pubkey_str : {AddrSystem, AddrBadChar},
   collection_pubkey_str : {AddrBubblegum, AddrShort},
   metadata_args : MetadataInputs, rpc_url : RpcUrls]

TransferArgs ==
  [payer_keypair_bs58 : PayerInputs, tree_pubkey_str : AddrInputs,
   leaf_owner_str : AddrInputs, new_owner_str : AddrInputs,
   asset_id_str : AddrInputs, rpc_url : RpcUrls]

(***************************************************************************)
(* The remote node's answers.                                              *)
(***************************************************************************)
Blockhashes == {"blockhash-1", "blockhash-2"}

BlockhashResponses ==
  {Ok(h) : h \in Blockhashes} \cup {Err("error sending request: connection refused")}

NodeRejections ==
  {"Transaction simulation failed: insufficient funds",
   "unable to confirm transaction: blockhash expired"}

(***************************************************************************)
(* The statements of the three operations, in program order.  A step is    *)
(* <<name>> or <<"parse_pubkey", argument>>.  send_transaction is inlined: *)
(* its steps are the same at its three call sites.                         *)
(***************************************************************************)
\* Lines 130-143.
send_transaction_body ==
  << <<"get_latest_blockhash">>, <<"sign">>, <<"send_and_confirm_transaction">> >>

\* Lines 151-200.
create_tree_config_body ==
  << <<"bs58_decode">>, <<"parse_keypair">>, <<"Keypair_new">>,
     <<"build_instruction">> >>
  \o send_transaction_body \o << <<"encode_result">> >>

\* Lines 208-268.
mint_to_collection_v1_body ==
  << <<"bs58_decode">>, <<"parse_keypair">>,
     <<"parse_pubkey", "tree_pubkey_str">>,
     <<"parse_pubkey", "collection_pubkey_str">>,
     <<"convert_metadata_args">>,
     <<"build_instruction">> >>
  \o send_transaction_body \o << <<"encode_result">> >>

\* transfer without the parse of asset_id_str.
transfer_body_unchecked_asset ==
  << <<"bs58_decode">>, <<"parse_keypair">>,
     <<"parse_pubkey", "tree_pubkey_str">>,
     <<"parse_pubkey", "leaf_owner_str">>,
     <<"parse_pubkey", "new_owner_str">>,
     <<"build_instruction">> >>
  \o send_transaction_body \o << <<"encode_result">> >>

\* Lines 276-337.
transfer_body ==
  << <<"bs58_decode">>, <<"parse_keypair">>,
     <<"parse_pubkey", "tree_pubkey_str">>,
     <<"parse_pubkey", "leaf_owner_str">>,
     <<"parse_pubkey", "new_owner_str">>,
     <<"parse_pubkey", "asset_id_str">>,
     <<"build_instruction">> >>
  \o send_transaction_body \o << <<"encode_result">> >>

Body(op) ==
  CASE op = "create_tree_config" -> create_tree_config_body
    [] op = "mint_to_collection_v1" -> mint_to_collection_v1_body
    [] op = "transfer" -> transfer_body

StepIndex(op, name) ==
  CHOOSE i \in 1..Len(Body(op)) :
    /\ Body(op)[i][1] = name
    /\ \A j \in 1..Len(Body(op)) : Body(op)[j][1] = name => i <= j

\* A failed blockhash fetch that is ignored: the transaction is signed next.
after_blockhash_error_ignored(op) == StepIndex(op, "sign")

\* A failed submission that is tried again.
after_confirm_error_retry(op) == StepIndex(op, "send_and_confirm_transaction")

\* Where send_transaction's `?` on a failed blockhash fetch continues: at the
\* caller's match on its result (lines 130-132).
after_blockhash_error(op) == StepIndex(op, "encode_result")

\* Where a failed send_and_confirm continues: send_transaction returns the
\* mapped error to the caller's match (lines 141-143).
after_confirm_error(op) == StepIndex(op, "encode_result")

(***************************************************************************)
(* State.  Every thread of the host that calls into the library has its    *)
(* own call, locals and connection; nothing is shared.                     *)
(***************************************************************************)
NumThreads == 2

Threads == 1..NumThreads

VARIABLES
  mode,   \* "idle", "running", "blocked" (in an RPC), "returned", "panicked"
  pc,     \* index in Body(call.op) of the statement to run next
  call,   \* [op, args] of the call in progress
  loc,    \* the locals of the call in progress
  rpc,    \* the requests this call has made of the node, with the answers
  trace,  \* the statements this call has run, in order
  ret     \* Some(term) once the call has returned a term

vars == <<mode, pc, call, loc, rpc, trace, ret>>

NoCall == [op |-> "none", args |-> <<>>]

NoLocals ==
  [payer_bytes |-> None, payer |-> None, pubkeys |-> <<>>, metadata |-> None,
   tree_keypair |-> None, ix |-> None, recent_blockhash |-> None,
   transaction |-> None, sent |-> None]

Init ==
  /\ mode = [t \in Threads |-> "idle"]
  /\ pc = [t \in Threads |-> 0]
  /\ call = [t \in Threads |-> NoCall]
  /\ loc = [t \in Threads |-> NoLocals]
  /\ rpc = [t \in Threads |-> <<>>]
  /\ trace = [t \in Threads |-> <<>>]
  /\ ret = [t \in Threads |-> None]

CurStep(t) == Body(call[t].op)[pc[t]]

Running(t, name) == mode[t] = "running" /\ CurStep(t)[1] = name

\* The host calls one of the three NIFs on thread t.
Enter(t, op, args) ==
  /\ mode[t] = "idle"
  /\ mode' = [mode EXCEPT ![t] = "running"]
  /\ pc' = [pc EXCEPT ![t] = 1]
  /\ call' = [call EXCEPT ![t] = [op |-> op, args |-> args]]
  /\ UNCHANGED <<loc, rpc, trace, ret>>

\* The current statement ran and control goes to statement `next`.
Goto(t, next, locals) ==
  /\ pc' = [pc EXCEPT ![t] = next]
  /\ loc' = [loc EXCEPT ![t] = locals]
  /\ trace' = [trace EXCEPT ![t] = Append(@, CurStep(t))]
  /\ UNCHANGED <<mode, call, rpc, ret>>

\* The current statement ran and returns `term` to the host.
Return(t, term) ==
  /\ mode' = [mode EXCEPT ![t] = "returned"]
  /\ ret' = [ret EXCEPT ![t] = Some(term)]
  /\ trace' = [trace EXCEPT ![t] = Append(@, CurStep(t))]
  /\ UNCHANGED <<pc, call, loc, rpc>>

\* The current statement panicked: the call unwinds and returns no term.
Panic(t) ==
  /\ mode' = [mode EXCEPT ![t] = "panicked"]
  /\ trace' = [trace EXCEPT ![t] = Append(@, CurStep(t))]
  /\ UNCHANGED <<pc, call, loc, rpc, ret>>

(***************************************************************************)
(* The statements.                                                         *)
(***************************************************************************)
\* The decode error reported as a key-pair error.
bs58_error_message_as_keypair(e) == <<"Invalid keypair: ", e>>

\* format!("Invalid bs58 encoding: {}", e) (lines 156, 213, 281).
bs58_error_message(e) == <<"Invalid bs58 encoding: ", e>>

\* Lines 154-157, 211-214, 279-282.
bs58_decode(t) ==
  /\ Running(t, "bs58_decode")
  /\ \E r \in {bs58_decode_into_vec(call[t].args.payer_keypair_bs58)} :
       IF r.ok
         THEN Goto(t, pc[t] + 1, [loc[t] EXCEPT !.payer_bytes = Some(r.bytes)])
         ELSE Return(t, error_tuple(bs58_error_message(r.err)))

\* Lines 159-162, 216-219, 284-287.
parse_keypair_step(t) ==
  /\ Running(t, "parse_keypair")
  /\ \E r \in {parse_keypair(loc[t].payer_bytes[1])} :
       IF r.ok
         THEN Goto(t, pc[t] + 1, [loc[t] EXCEPT !.payer = Some(r.val)])
         ELSE Return(t, error_tuple(to_string(r.err)))

\* Lines 222-230, 290-308: one argument parsed per statement.
parse_pubkey_step(t) ==
  /\ Running(t, "parse_pubkey")
  /\ \E r \in {parse_pubkey(call[t].args[CurStep(t)[2]])} :
       IF r.ok
         THEN Goto(t, pc[t] + 1, [loc[t] EXCEPT !.pubkeys = Append(@, r.val)])
         ELSE Return(t, error_tuple(to_string(r.err)))

\* Lines 233-236.
convert_metadata_args_step(t) ==
  /\ Running(t, "convert_metadata_args")
  /\ \E r \in {convert_metadata_args(call[t].args.metadata_args)} :
       IF r.panicked THEN Panic(t)
       ELSE IF r.val.ok
         THEN Goto(t, pc[t] + 1, [loc[t] EXCEPT !.metadata = Some(r.val.val)])
         ELSE Return(t, error_tuple(to_string(r.val.err)))

\* Lines 165-166: Keypair::new() draws a key pair at random.
Keypair_new(t) ==
  /\ Running(t, "Keypair_new")
  /\ \E bytes \in FreshKeyBytes :
       Goto(t, pc[t] + 1,
            [loc[t] EXCEPT !.tree_keypair = Some(Keypair_from_bytes(bytes).val)])

\* The instruction of the call, from its locals.
build(op, args, l) ==
  CASE op = "create_tree_config" ->
         create_tree_ix(l.payer[1], pubkey(l.tree_keypair[1]), args.max_depth,
                        args.max_buffer_size, args.canopy_depth, args.public)
    [] op = "mint_to_collection_v1" ->
         mint_ix(l.payer[1], l.pubkeys[1], l.pubkeys[2], l.metadata[1])
    [] op = "transfer" ->
         transfer_ix(l.pubkeys[1], l.pubkeys[2], l.pubkeys[3], l.pubkeys[4])

\* Lines 169-179, 239-249, 311-318.
build_instruction(t) ==
  /\ Running(t, "build_instruction")
  /\ Goto(t, pc[t] + 1,
          [loc[t] EXCEPT !.ix = Some(build(call[t].op, call[t].args, loc[t]))])

\* The thread makes a request of the node and blocks until it is answered.
Request(t, method, transaction) ==
  /\ mode' = [mode EXCEPT ![t] = "blocked"]
  /\ rpc' = [rpc EXCEPT ![t] =
       Append(@, [method |-> method, url |-> call[t].args.rpc_url,
                  transaction |-> transaction, response |-> None])]
  /\ trace' = [trace EXCEPT ![t] = Append(@, CurStep(t))]
  /\ UNCHANGED <<pc, call, loc, ret>>

Pending(t, method) ==
  /\ mode[t] = "blocked"
  /\ rpc[t][Len(rpc[t])].method = method
  /\ rpc[t][Len(rpc[t])].response = None

Answered(t, method) ==
  /\ mode[t] = "blocked"
  /\ rpc[t][Len(rpc[t])].method = method
  /\ rpc[t][Len(rpc[t])].response # None

\* One connection shared by the threads: the answer read is the first thread's
\* whose latest request of that method has been answered.
Answer_shared(t) ==
  rpc[CHOOSE u \in Threads :
        /\ Answered(u, rpc[t][Len(rpc[t])].method)
        /\ \A v \in Threads : Answered(v, rpc[t][Len(rpc[t])].method) => u <= v
     ][Len(rpc[CHOOSE u \in Threads :
                 /\ Answered(u, rpc[t][Len(rpc[t])].method)
                 /\ \A v \in Threads : Answered(v, rpc[t][Len(rpc[t])].method) => u <= v])
     ].response[1]

Answer(t) == rpc[t][Len(rpc[t])].response[1]

Respond(t, response) ==
  /\ rpc' = [rpc EXCEPT ![t][Len(rpc[t])].response = Some(response)]
  /\ UNCHANGED <<mode, pc, call, loc, trace, ret>>

\* The thread resumes after the answer, at statement `next`.
Resume(t, next, locals) ==
  /\ mode' = [mode EXCEPT ![t] = "running"]
  /\ pc' = [pc EXCEPT ![t] = next]
  /\ loc' = [loc EXCEPT ![t] = locals]
  /\ UNCHANGED <<call, rpc, trace, ret>>

\* Lines 130-131.
get_latest_blockhash(t) ==
  /\ Running(t, "get_latest_blockhash")
  /\ Request(t, "get_latest_blockhash", None)

node_get_latest_blockhash(t) ==
  /\ Pending(t, "get_latest_blockhash")
  /\ \E response \in BlockhashResponses : Respond(t, response)

\* Line 132.
recv_latest_blockhash(t) ==
  /\ Answered(t, "get_latest_blockhash")
  /\ IF Answer(t).ok
       THEN Resume(t, pc[t] + 1, [loc[t] EXCEPT !.recent_blockhash = Some(Answer(t).val)])
       ELSE Resume(t, after_blockhash_error(call[t].op),
                   [loc[t] EXCEPT !.sent =
                      Some(Err(BubblegumError("SolanaClientError", Answer(t).err)))])

\* The `signers` argument at the three call sites (lines 182, 252, 321).
extra_signers(op, l) ==
  IF op = "create_tree_config" THEN <<l.tree_keypair[1]>> ELSE <<>>

\* Lines 134-139.
sign_step(t) ==
  /\ Running(t, "sign")
  /\ LET payer == loc[t].payer[1]
         transaction == new_with_payer(<<loc[t].ix[1]>>, pubkey(payer))
         signed == sign(transaction, all_signers(payer, extra_signers(call[t].op, loc[t])),
                        loc[t].recent_blockhash[1])
     IN  Goto(t, pc[t] + 1, [loc[t] EXCEPT !.transaction = Some(signed)])

\* Lines 141-142.
send_and_confirm_transaction(t) ==
  /\ Running(t, "send_and_confirm_transaction")
  /\ Request(t, "send_and_confirm_transaction", loc[t].transaction)

node_send_and_confirm_transaction(t) ==
  /\ Pending(t, "send_and_confirm_transaction")
  /\ \/ Respond(t, Ok(Signature(rpc[t][Len(rpc[t])].transaction[1])))
     \/ \E reason \in NodeRejections : Respond(t, Err(reason))

\* Line 143.
recv_send_and_confirm_transaction(t) ==
  /\ Answered(t, "send_and_confirm_transaction")
  /\ IF Answer(t).ok
       THEN Resume(t, pc[t] + 1, [loc[t] EXCEPT !.sent = Some(Ok(Answer(t).val))])
       ELSE Resume(t, after_confirm_error(call[t].op),
                   [loc[t] EXCEPT !.sent =
                      Some(Err(BubblegumError("TransactionError", Answer(t).err)))])

\* The fields of the map returned on success (lines 184-191, 254-259, 323-328).
ok_fields(op, l, signature) ==
  IF op = "create_tree_config"
    THEN [tree_pubkey |-> Pubkey_to_string(pubkey(l.tree_keypair[1])),
          signature |-> Signature_to_string(signature)]
    ELSE [signature |-> Signature_to_string(signature)]

\* Lines 182-200, 252-268, 321-337: the match on send_transaction's result.
encode_result(t) ==
  /\ Running(t, "encode_result")
  /\ LET sent == loc[t].sent[1]
     IN  IF sent.ok
           THEN Return(t, ok_map(ok_fields(call[t].op, loc[t], sent.val)))
           ELSE Return(t, error_map(sent.err))

\* The call is over; its locals and its connection are dropped.
release(t) ==
  /\ mode[t] \in {"returned", "panicked"}
  /\ mode' = [mode EXCEPT ![t] = "idle"]
  /\ pc' = [pc EXCEPT ![t] = 0]
  /\ call' = [call EXCEPT ![t] = NoCall]
  /\ loc' = [loc EXCEPT ![t] = NoLocals]
  /\ rpc' = [rpc EXCEPT ![t] = <<>>]
  /\ trace' = [trace EXCEPT ![t] = <<>>]
  /\ ret' = [ret EXCEPT ![t] = None]

\* Lines 146-150, 203-207, 271-275: the three entry points.
create_tree_config(t, Args) ==
  /\ mode[t] = "idle"
  /\ \E args \in Args : Enter(t, "create_tree_config", args)

mint_to_collection_v1(t, Args) ==
  /\ mode[t] = "idle"
  /\ \E args \in Args : Enter(t, "mint_to_collection_v1", args)

transfer(t, Args) ==
  /\ mode[t] = "idle"
  /\ \E args \in Args : Enter(t, "transfer", args)

Step(t) ==
  \/ bs58_decode(t)
  \/ parse_keypair_step(t)
  \/ parse_pubkey_step(t)
  \/ convert_metadata_args_step(t)
  \/ Keypair_new(t)
  \/ build_instruction(t)
  \/ get_latest_blockhash(t)
  \/ node_get_latest_blockhash(t)
  \/ recv_latest_blockhash(t)
  \/ sign_step(t)
  \/ send_and_confirm_transaction(t)
  \/ node_send_and_confirm_transaction(t)
  \/ recv_send_and_confirm_transaction(t)
  \/ encode_result(t)
  \/ release(t)

\* One thread of the host calls the library, one call after the other.
Next ==
  \/ create_tree_config(1, CreateTreeArgs)
  \/ mint_to_collection_v1(1, MintArgs)
  \/ transfer(1, TransferArgs)
  \/ Step(1)

Spec == Init /\ [][Next]_vars

(***************************************************************************)
(* Several threads of the host call the library at once, with a narrower   *)
(* choice of arguments.                                                    *)
(***************************************************************************)
ConcCreateTreeArgs ==
  [payer_keypair_bs58 : {PayerGood, PayerBadBs58}, max_depth : {14},
   max_buffer_size : {64}, canopy_depth : {0, 10}, public : {FALSE},
   rpc_url : RpcUrls]

ConcMintArgs ==
  [payer_keypair_bs58 : {PayerGood},
   tree_pubkey_str : {AddrSystem},
   collection_pubkey_str : {AddrBubblegum},
   metadata_args :
     [name : {"Asset"}, symbol : {"AST"}, uri : {"https://example.com/a.json"},
      seller_fee_basis_points : {500},
      primary_sale_happened : {FALSE},
      is_mutable : {TRUE},
      edition_nonce : {None},
      creators : {<<>>, <<[address |-> AddrBadChar, verified |-> FALSE, share |-> 0]>>},
      collection : {None},
      uses : {None}],
   rpc_url : RpcUrls]

ConcTransferArgs ==
  [payer_keypair_bs58 : {PayerGood}, tree_pubkey_str : {AddrSystem},
   leaf_owner_str : GoodAddrs, new_owner_str : {AddrBubblegum},
   asset_id_str : GoodAddrs \cup {AddrShort}, rpc_url : RpcUrls]

NextConc ==
  \E t \in Threads :
    \/ create_tree_config(t, ConcCreateTreeArgs)
    \/ mint_to_collection_v1(t, ConcMintArgs)
    \/ transfer(t, ConcTransferArgs)
    \/ Step(t)

SpecConc == Init /\ [][NextConc]_vars

(***************************************************************************)
(* Several threads transfer at once: the same leaf of the same tree to the *)
(* same new owner, under asset ids that may differ.                        *)
(***************************************************************************)
AssetIdTransferArgs ==
  [payer_keypair_bs58 : {PayerGood}, tree_pubkey_str : {AddrSystem},
   leaf_owner_str : {AddrBubblegum}, new_owner_str : {AddrSystem},
   asset_id_str : GoodAddrs, rpc_url : RpcUrls]

\* The statements of transfer (it translates no metadata and makes no key).
NextTransfers ==
  \E t \in Threads :
    \/ transfer(t, AssetIdTransferArgs)
    \/ bs58_decode(t)
    \/ parse_keypair_step(t)
    \/ parse_pubkey_step(t)
    \/ build_instruction(t)
    \/ get_latest_blockhash(t)
    \/ node_get_latest_blockhash(t)
    \/ recv_latest_blockhash(t)
    \/ sign_step(t)
    \/ send_and_confirm_transaction(t)
    \/ node_send_and_confirm_transaction(t)
    \/ recv_send_and_confirm_transaction(t)
    \/ encode_result(t)
    \/ release(t)

SpecTransfers == Init /\ [][NextTransfers]_vars

(***************************************************************************)
(* Vocabulary of the properties.                                           *)
(***************************************************************************)
InCall(t) == mode[t] # "idle"

IsFailure(term) ==
  \/ term.term = "tuple" /\ term.elems[1] = "error"
  \/ term.term = "map" /\ DOMAIN term.entries = {"error"}

IsSuccess(term) == term.term = "map" /\ DOMAIN term.entries = {"ok"}

FailureMessage(term) ==
  IF term.term = "tuple" THEN term.elems[2] ELSE term.entries.error

ReturnedFailure(t) == mode[t] = "returned" /\ IsFailure(ret[t][1])

ReturnedSuccess(t) == mode[t] = "returned" /\ IsSuccess(ret[t][1])

PayerDecodes(args) == Bs58DecodeTable[args.payer_keypair_bs58].ok

PayerParses(args) ==
  /\ PayerDecodes(args)
  /\ Keypair_from_bytes(Bs58DecodeTable[args.payer_keypair_bs58].bytes).ok

\* The address-typed arguments of a call, by operation.
TopAddressArgs(op) ==
  CASE op = "create_tree_config" -> {}
    [] op = "mint_to_collection_v1" -> {"tree_pubkey_str", "collection_pubkey_str"}
    [] op = "transfer" ->
         {"tree_pubkey_str", "leaf_owner_str", "new_owner_str", "asset_id_str"}

\* The addresses inside the metadata of a mint.
MetadataAddresses(m) ==
  {m.creators[i].address : i \in 1..Len(m.creators)}
    \cup {m.collection[i] : i \in 1..Len(m.collection)}

AddressTexts(c) ==
  {c.args[f] : f \in TopAddressArgs(c.op)}
    \cup (IF c.op = "mint_to_collection_v1"
            THEN MetadataAddresses(c.args.metadata_args) ELSE {})

AddressParses(text) == PubkeyTable[text].ok

Ran(t, name) == \E i \in 1..Len(trace[t]) : trace[t][i][1] = name

\* The statements run before the first run of `name` (all of them if none).
Before(t, name) ==
  {trace[t][i] : i \in {j \in 1..Len(trace[t]) :
                          \A k \in 1..j : trace[t][k][1] # name}}

NetworkCalls(t, method) ==
  Cardinality({i \in 1..Len(rpc[t]) : rpc[t][i].method = method})

(***************************************************************************)
(* C1: no request is made of the node unless the payer key has been        *)
(* decoded and parsed and every address-typed input of the operation       *)
(* (mint: tree, collection, every creator address, the metadata collection *)
(* key; transfer: tree, leaf owner, new owner, asset id) has parsed, all   *)
(* of it before the first request.                                         *)
(***************************************************************************)
C1_ParsedBeforeNetwork ==
  \A t \in Threads :
    rpc[t] # <<>> =>
      /\ PayerParses(call[t].args)
      /\ \A text \in AddressTexts(call[t]) : AddressParses(text)
      /\ <<"bs58_decode">> \in Before(t, "get_latest_blockhash")
      /\ <<"parse_keypair">> \in Before(t, "get_latest_blockhash")
      /\ \A f \in TopAddressArgs(call[t].op) :
           <<"parse_pubkey", f>> \in Before(t, "get_latest_blockhash")
      /\ call[t].op = "mint_to_collection_v1" =>
           <<"convert_metadata_args">> \in Before(t, "get_latest_blockhash")

\* A mint with two creators and a collection key has reached the node.
C1_Witness ==
  \E t \in Threads :
    /\ rpc[t] # <<>>
    /\ call[t].op = "mint_to_collection_v1"
    /\ Len(call[t].args.metadata_args.creators) = 2
    /\ call[t].args.metadata_args.collection # None

(***************************************************************************)
(* C2: with a payer key that is not base-58, each of the three operations  *)
(* returns a failure whose message is the invalid-encoding one, whatever   *)
(* the other arguments, and makes no request of the node.                  *)
(***************************************************************************)
InvalidEncodingMessage(message) == message[1] = "Invalid bs58 encoding: "

C2_BadBase58Payer ==
  \A t \in Threads :
    (InCall(t) /\ ~PayerDecodes(call[t].args)) =>
      /\ rpc[t] = <<>>
      /\ \/ mode[t] = "running" /\ trace[t] = <<>>
         \/ /\ ReturnedFailure(t)
            /\ InvalidEncodingMessage(FailureMessage(ret[t][1]))
            /\ trace[t] = << <<"bs58_decode">> >>

\* A transfer whose payer key is not base-58 and whose addresses are all
\* malformed too has returned.
C2_Witness ==
  \E t \in Threads :
    /\ mode[t] = "returned"
    /\ call[t].op = "transfer"
    /\ ~PayerDecodes(call[t].args)
    /\ \A text \in AddressTexts(call[t]) : ~AddressParses(text)

(***************************************************************************)
(* C3: a mint whose other inputs are valid and whose metadata holds a      *)
(* malformed creator address or collection key returns a failure to the    *)
(* caller: the call does not panic, and no request is made of the node.    *)
(***************************************************************************)
MalformedMetadata(c) ==
  /\ c.op = "mint_to_collection_v1"
  /\ \E text \in MetadataAddresses(c.args.metadata_args) : ~AddressParses(text)

C3_MalformedCreatorReturnsFailure ==
  \A t \in Threads :
    (/\ InCall(t)
     /\ MalformedMetadata(call[t])
     /\ PayerParses(call[t].args)
     /\ AddressParses(call[t].args.tree_pubkey_str)
     /\ AddressParses(call[t].args.collection_pubkey_str)
     /\ Ran(t, "convert_metadata_args")) =>
      /\ ReturnedFailure(t)
      /\ rpc[t] = <<>>

(***************************************************************************)
(* C4: each operation runs its steps in the order: decode and parse the    *)
(* signing key, parse the address-typed inputs, (mint) translate the       *)
(* metadata, (create-tree) generate the tree key, build the instruction,   *)
(* submit, map the result.  A step that fails makes the operation return   *)
(* at once with that step's failure: no later step runs, no instruction is *)
(* built, no request is made; with several invalid inputs the failure is   *)
(* that of the earliest failing step.                                      *)
(***************************************************************************)
Stage(step) ==
  CASE step[1] \in {"bs58_decode", "parse_keypair"} -> 1
    [] step[1] = "parse_pubkey" -> 2
    [] step[1] = "convert_metadata_args" -> 3
    [] step[1] = "Keypair_new" -> 4
    [] step[1] = "build_instruction" -> 5
    [] step[1] \in {"get_latest_blockhash", "sign", "send_and_confirm_transaction"} -> 6
    [] step[1] = "encode_result" -> 7

\* The address-typed arguments in the order of the parameters.
OrderedAddressArgs(op) ==
  CASE op = "create_tree_config" -> <<>>
    [] op = "mint_to_collection_v1" -> <<"tree_pubkey_str", "collection_pubkey_str">>
    [] op = "transfer" ->
         <<"tree_pubkey_str", "leaf_owner_str", "new_owner_str", "asset_id_str">>

\* The earliest step that fails on the inputs of call c, as [stage, kind, steps]:
\* the stage, the text its failure message starts with and the number of steps
\* run when it has failed; stage 0 if every local step succeeds.
EarliestFailure(c) ==
  LET fields == OrderedAddressArgs(c.op)
      badFields == {i \in 1..Len(fields) : ~AddressParses(c.args[fields[i]])}
  IN  IF ~PayerDecodes(c.args)
        THEN [stage |-> 1, kind |-> "Invalid bs58 encoding: ", steps |-> 1]
      ELSE IF ~PayerParses(c.args)
        THEN [stage |-> 1, kind |-> "Invalid keypair: ", steps |-> 2]
      ELSE IF badFields # {}
        THEN [stage |-> 2, kind |-> "Invalid public key: ",
              steps |-> 2 + (CHOOSE i \in badFields : \A j \in badFields : i <= j)]
      ELSE IF MalformedMetadata(c)
        THEN [stage |-> 3, kind |-> "Invalid public key: ", steps |-> 3 + Len(fields)]
      ELSE [stage |-> 0, kind |-> "", steps |-> 0]

InOrder(t) ==
  \A i, j \in 1..Len(trace[t]) : i < j => Stage(trace[t][i]) <= Stage(trace[t][j])

FailsFast(t) ==
  LET f == EarliestFailure(call[t])
  IN  f.stage > 0 =>
        /\ Len(trace[t]) <= f.steps
        /\ \A i \in 1..Len(trace[t]) : Stage(trace[t][i]) <= f.stage
        /\ loc[t].ix = None
        /\ rpc[t] = <<>>
        /\ IF Len(trace[t]) < f.steps
             THEN mode[t] = "running"
             ELSE /\ ReturnedFailure(t)
                  /\ FailureMessage(ret[t][1])[1] = f.kind

C4_OrderAndShortCircuit ==
  \A t \in Threads : InCall(t) => InOrder(t) /\ FailsFast(t)

\* The same, over the calls whose metadata is well-formed.
C4_ExceptMalformedMetadata ==
  \A t \in Threads :
    (InCall(t) /\ ~MalformedMetadata(call[t])) => InOrder(t) /\ FailsFast(t)

(***************************************************************************)
(* C5: every failure of every operation comes back in one and the same     *)
(* shape: a failure of local validation has the outer structure of a       *)
(* failure of the submitter and differs from it in the message only.       *)
(***************************************************************************)
OuterStructure(term) ==
  IF term.term = "tuple" THEN "tuple {error, message}"
  ELSE IF DOMAIN term.entries = {"error"} THEN "map %{error => message}"
  ELSE "map %{ok => fields}"

C5_UniformFailureShape ==
  \A t1, t2 \in Threads :
    (ReturnedFailure(t1) /\ ReturnedFailure(t2)) =>
      OuterStructure(ret[t1][1]) = OuterStructure(ret[t2][1])

(***************************************************************************)
(* C6: the transaction is signed by [payer, extra signers...] in that      *)
(* order and its fee payer is the payer: [payer, tree key] for create-tree *)
(* and [payer] for mint and transfer.                                      *)
(***************************************************************************)
PayerAddress(args) == PublicHalf(Bs58DecodeTable[args.payer_keypair_bs58].bytes)

C6_SignerOrder ==
  \A t \in Threads :
    loc[t].transaction # None =>
      LET tx == loc[t].transaction[1]
      IN  /\ tx.fee_payer = PayerAddress(call[t].args)
          /\ tx.signed_by[1] = PayerAddress(call[t].args)
          /\ IF call[t].op = "create_tree_config"
               THEN tx.signed_by = <<PayerAddress(call[t].args),
                                     loc[t].tree_keypair[1].public>>
               ELSE tx.signed_by = <<PayerAddress(call[t].args)>>
          /\ \A i \in 1..Len(rpc[t]) :
               rpc[t][i].method = "send_and_confirm_transaction" =>
                 rpc[t][i].transaction = Some(tx)

\* A create-tree transaction has been signed and submitted.
C6_Witness ==
  \E t \in Threads :
    /\ call[t].op = "create_tree_config"
    /\ loc[t].transaction # None
    /\ NetworkCalls(t, "send_and_confirm_transaction") = 1

(***************************************************************************)
(* C7: one invocation fetches the blockhash at most once and submits at    *)
(* most once, and makes no request after a failed one; a successful        *)
(* create-tree has made exactly one fetch followed by exactly one submit.  *)
(***************************************************************************)
C7_NoRetry ==
  \A t \in Threads :
    /\ NetworkCalls(t, "get_latest_blockhash") <= 1
    /\ NetworkCalls(t, "send_and_confirm_transaction") <= 1
    /\ \A i \in 1..(Len(rpc[t]) - 1) : rpc[t][i].response # None /\ rpc[t][i].response[1].ok
    /\ (ReturnedSuccess(t) /\ call[t].op = "create_tree_config") =>
         /\ Len(rpc[t]) = 2
         /\ rpc[t][1].method = "get_latest_blockhash"
         /\ rpc[t][2].method = "send_and_confirm_transaction"

\* A create-tree has returned success.
C7_Witness ==
  \E t \in Threads : ReturnedSuccess(t) /\ call[t].op = "create_tree_config"

(***************************************************************************)
(* C8: if the blockhash fetch fails, send_transaction fails with the       *)
(* network error before any signing: nothing is signed and nothing is      *)
(* submitted in that invocation.  A submission is always preceded, in the  *)
(* same invocation, by a successful fetch and by the signing.              *)
(***************************************************************************)
BlockhashFailed(t) ==
  /\ rpc[t] # <<>>
  /\ rpc[t][1].method = "get_latest_blockhash"
  /\ rpc[t][1].response # None
  /\ ~rpc[t][1].response[1].ok

C8_FetchBeforeSign ==
  \A t \in Threads :
    /\ BlockhashFailed(t) =>
         /\ ~Ran(t, "sign")
         /\ ~Ran(t, "send_and_confirm_transaction")
         /\ loc[t].transaction = None
         /\ Len(rpc[t]) = 1
         /\ mode[t] = "running" =>
              /\ CurStep(t) = <<"encode_result">>
              /\ loc[t].sent = Some(Err(BubblegumError("SolanaClientError",
                                                       rpc[t][1].response[1].err)))
         /\ mode[t] = "returned" =>
              /\ IsFailure(ret[t][1])
              /\ FailureMessage(ret[t][1]) =
                   <<"Solana client error: ", rpc[t][1].response[1].err>>
    /\ Ran(t, "send_and_confirm_transaction") =>
         /\ rpc[t][1].method = "get_latest_blockhash"
         /\ rpc[t][1].response # None /\ rpc[t][1].response[1].ok
         /\ <<"sign">> \in Before(t, "send_and_confirm_transaction")
         /\ <<"get_latest_blockhash">> \in Before(t, "sign")
         /\ rpc[t][2].transaction[1].recent_blockhash = Some(rpc[t][1].response[1].val)
         /\ rpc[t][2].transaction[1].signed_by # <<>>

\* A call has returned after a failed fetch.
C8_Witness ==
  \E t \in Threads :
    /\ BlockhashFailed(t)
    /\ mode[t] = "returned"

(***************************************************************************)
(* C9: transfers that differ in the asset id only (both ids valid) build   *)
(* the same instruction: it depends on tree, leaf owner and new owner      *)
(* alone, and the asset id reaches neither the instruction nor the         *)
(* transaction submitted.                                                  *)
(***************************************************************************)
SameButAssetId(a1, a2) ==
  /\ a1.payer_keypair_bs58 = a2.payer_keypair_bs58
  /\ a1.tree_pubkey_str = a2.tree_pubkey_str
  /\ a1.leaf_owner_str = a2.leaf_owner_str
  /\ a1.new_owner_str = a2.new_owner_str
  /\ a1.rpc_url = a2.rpc_url

C9_AssetIdIgnored ==
  \A t1, t2 \in Threads :
    (/\ call[t1].op = "transfer" /\ call[t2].op = "transfer"
     /\ SameButAssetId(call[t1].args, call[t2].args)
     /\ loc[t1].ix # None /\ loc[t2].ix # None) =>
      /\ loc[t1].ix = loc[t2].ix
      /\ (/\ loc[t1].transaction # None /\ loc[t2].transaction # None
          /\ loc[t1].recent_blockhash = loc[t2].recent_blockhash) =>
           loc[t1].transaction = loc[t2].transaction

\* Two transfers in flight that differ in the asset id have both built their
\* instruction and signed their transaction over the same blockhash.
C9_Witness ==
  \E t1, t2 \in Threads :
    /\ call[t1].op = "transfer" /\ call[t2].op = "transfer"
    /\ SameButAssetId(call[t1].args, call[t2].args)
    /\ call[t1].args.asset_id_str # call[t2].args.asset_id_str
    /\ loc[t1].transaction # None /\ loc[t2].transaction # None
    /\ loc[t1].recent_blockhash = loc[t2].recent_blockhash

(***************************************************************************)
(* C10: for a valid metadata description with N creators (N >= 0),         *)
(* convert_metadata_args yields exactly N creators in the order of the     *)
(* input, each with verified and share unchanged and the address the       *)
(* parsed input address.                                                   *)
(***************************************************************************)
C10_CreatorsTranslated ==
  \A t \in Threads :
    loc[t].metadata # None =>
      LET input == call[t].args.metadata_args.creators
          output == loc[t].metadata[1].creators
      IN  /\ Len(output) = Len(input)
          /\ \A i \in 1..Len(input) :
               /\ output[i].verified = input[i].verified
               /\ output[i].share = input[i].share
               /\ Ok(output[i].address) = PubkeyOfDecoded(Bs58Decode(input[i].address))

\* Metadata with two different creators, one verified, has been translated.
C10_Witness ==
  \E t \in Threads :
    /\ loc[t].metadata # None
    /\ Len(loc[t].metadata[1].creators) = 2
    /\ loc[t].metadata[1].creators[1].verified
    /\ ~loc[t].metadata[1].creators[2].verified
    /\ loc[t].metadata[1].creators[1].address # loc[t].metadata[1].creators[2].address

(***************************************************************************)
(* C11: convert_metadata_args gives no usage-limit entry for an input of   *)
(* None (not an entry with a limit of zero), and for an input of Some(k)   *)
(* an entry with remaining = total = k and the use method Multiple.        *)
(***************************************************************************)
C11_UsesTranslated ==
  \A t \in Threads :
    loc[t].metadata # None =>
      LET input == call[t].args.metadata_args.uses
          output == loc[t].metadata[1].uses
      IN  /\ input = None <=> output = None
          /\ input # None =>
               /\ Len(output) = 1
               /\ output[1].remaining = input[1]
               /\ output[1].total = input[1]
               /\ output[1].use_method = "Multiple"

\* Metadata without a usage limit has been translated.
C11_Witness ==
  \E t \in Threads :
    /\ loc[t].metadata # None
    /\ call[t].args.metadata_args.uses = None
    /\ loc[t].metadata[1].uses = None

\* Metadata with a usage limit has been translated.
C11_SomeUsesReached ==
  \E t \in Threads :
    /\ loc[t].metadata # None
    /\ call[t].args.metadata_args.uses # None
    /\ loc[t].metadata[1].uses[1].total = call[t].args.metadata_args.uses[1]

(***************************************************************************)
(* C12: with several operations in flight, under every interleaving of     *)
(* their steps, an operation's instruction, transaction (fee payer,        *)
(* signers, blockhash) and returned result are determined by its own       *)
(* arguments, its own tree key and the node's answers to its own requests, *)
(* and a step of one operation changes nothing of another.                 *)
(***************************************************************************)
OwnPayer(c) == Keypair_from_bytes(Bs58DecodeTable[c.args.payer_keypair_bs58].bytes).val

\* The locals of a call, computed from its arguments and its tree key.
OwnLocals(c, tree_keypair) ==
  [NoLocals EXCEPT
     !.payer = Some(OwnPayer(c)),
     !.pubkeys = [i \in 1..Len(OrderedAddressArgs(c.op)) |->
                    PubkeyTable[c.args[OrderedAddressArgs(c.op)[i]]].val],
     !.metadata = IF c.op = "mint_to_collection_v1"
                    THEN Some(convert_metadata_args(c.args.metadata_args).val.val)
                    ELSE None,
     !.tree_keypair = tree_keypair]

OwnInstruction(t) ==
  build(call[t].op, call[t].args, OwnLocals(call[t], loc[t].tree_keypair))

OwnTransaction(t) ==
  sign(new_with_payer(<<OwnInstruction(t)>>, pubkey(OwnPayer(call[t]))),
       all_signers(OwnPayer(call[t]),
                   extra_signers(call[t].op, OwnLocals(call[t], loc[t].tree_keypair))),
       rpc[t][1].response[1].val)

\* The result of a call that reached the node, from the last answer it got.
OwnResult(t) ==
  IF rpc[t][Len(rpc[t])].response[1].ok
    THEN ok_map(ok_fields(call[t].op, OwnLocals(call[t], loc[t].tree_keypair),
                          rpc[t][Len(rpc[t])].response[1].val))
    ELSE error_map(BubblegumError(
           IF rpc[t][Len(rpc[t])].method = "get_latest_blockhash"
             THEN "SolanaClientError" ELSE "TransactionError",
           rpc[t][Len(rpc[t])].response[1].err))

OwnDetermined(t) ==
  /\ loc[t].ix # None => loc[t].ix = Some(OwnInstruction(t))
  /\ loc[t].recent_blockhash # None =>
       loc[t].recent_blockhash = Some(rpc[t][1].response[1].val)
  /\ loc[t].transaction # None => loc[t].transaction = Some(OwnTransaction(t))
  /\ \A i \in 1..Len(rpc[t]) :
       /\ rpc[t][i].url = call[t].args.rpc_url
       /\ rpc[t][i].method = "send_and_confirm_transaction" =>
            rpc[t][i].transaction = Some(OwnTransaction(t))
  /\ (mode[t] = "returned" /\ rpc[t] # <<>>) => ret[t] = Some(OwnResult(t))

OnlyThreadChanges(t) ==
  \A u \in Threads \ {t} :
    /\ mode'[u] = mode[u] /\ pc'[u] = pc[u] /\ call'[u] = call[u]
    /\ loc'[u] = loc[u] /\ rpc'[u] = rpc[u] /\ trace'[u] = trace[u]
    /\ ret'[u] = ret[u]

C12_Isolation ==
  [][/\ \E t \in Threads : OnlyThreadChanges(t)
     /\ \A t \in Threads : OwnDetermined(t)']_vars

\* Two operations of different kinds are in flight, both with a signed
\* transaction, over different blockhashes.
C12_Witness ==
  \E t1, t2 \in Threads :
    /\ call[t1].op = "create_tree_config" /\ call[t2].op = "transfer"
    /\ mode[t1] = "blocked" /\ mode[t2] = "blocked"
    /\ loc[t1].transaction # None /\ loc[t2].transaction # None
    /\ loc[t1].recent_blockhash # loc[t2].recent_blockhash

(***************************************************************************)
(* C13: the kind of a failure is that of the step that failed: payer text  *)
(* that is not base-58 gives an invalid-encoding error, key bytes that     *)
(* make no key pair an invalid-key error, an address that does not parse   *)
(* an invalid-address error, a failed blockhash fetch a network error, a   *)
(* failed submission a transaction error carrying the node's reason        *)
(* verbatim; no failure is reported under the kind of another step.        *)
(***************************************************************************)
\* The first address-typed argument of call c that does not parse, if any.
BadAddressArgs(c) ==
  {i \in 1..Len(OrderedAddressArgs(c.op)) :
     ~AddressParses(c.args[OrderedAddressArgs(c.op)[i]])}

FirstBadAddress(c) ==
  c.args[OrderedAddressArgs(c.op)[
    CHOOSE i \in BadAddressArgs(c) : \A j \in BadAddressArgs(c) : i <= j]]

\* The message of the failure of thread t's call, from the step that failed:
\* the kind's text and the underlying message.
FailedStepMessage(t) ==
  IF ~PayerDecodes(call[t].args)
    THEN <<"Invalid bs58 encoding: ", Bs58Decode(call[t].args.payer_keypair_bs58).err>>
  ELSE IF ~PayerParses(call[t].args)
    THEN <<"Invalid keypair: ",
           Keypair_from_bytes(Bs58Decode(call[t].args.payer_keypair_bs58).bytes).err>>
  ELSE IF BadAddressArgs(call[t]) # {}
    THEN <<"Invalid public key: ", ParsePubkeyText(FirstBadAddress(call[t])).err>>
  ELSE IF rpc[t][Len(rpc[t])].method = "get_latest_blockhash"
    THEN <<"Solana client error: ", rpc[t][Len(rpc[t])].response[1].err>>
  ELSE <<"Transaction error: ", rpc[t][Len(rpc[t])].response[1].err>>

\* The statement a failure of each kind comes from.
StepOfKind(kind) ==
  CASE kind = "Invalid bs58 encoding: " -> "bs58_decode"
    [] kind = "Invalid keypair: " -> "parse_keypair"
    [] kind = "Invalid public key: " -> "parse_pubkey"
    [] kind = "Solana client error: " -> "get_latest_blockhash"
    [] kind = "Transaction error: " -> "send_and_confirm_transaction"

\* The last statement of the call that did something other than hand the
\* submitter's result back.
LastWorkingStep(t) ==
  trace[t][CHOOSE i \in 1..Len(trace[t]) :
             /\ trace[t][i][1] # "encode_result"
             /\ \A j \in (i + 1)..Len(trace[t]) : trace[t][j][1] = "encode_result"][1]

C13_FailureKinds ==
  \A t \in Threads :
    ReturnedFailure(t) =>
      /\ FailureMessage(ret[t][1]) = FailedStepMessage(t)
      /\ LastWorkingStep(t) = StepOfKind(FailureMessage(ret[t][1])[1])

\* A submission was rejected and the call has returned the node's reason as a
\* transaction error.
C13_Witness ==
  \E t \in Threads :
    /\ ReturnedFailure(t)
    /\ FailureMessage(ret[t][1])[1] = "Transaction error: "
    /\ FailureMessage(ret[t][1])[2] \in NodeRejections

\* Failures of the other four kinds have been returned.
C13_KindReached(kind) ==
  \E t \in Threads : ReturnedFailure(t) /\ FailureMessage(ret[t][1])[1] = kind

C13_EncodingReached == C13_KindReached("Invalid bs58 encoding: ")
C13_KeypairReached == C13_KindReached("Invalid keypair: ")
C13_AddressReached == C13_KindReached("Invalid public key: ")
C13_NetworkReached == C13_KindReached("Solana client error: ")

(***************************************************************************)
(* C14: an operation returns Success if and only if all local validation   *)
(* passed, the blockhash fetch succeeded and the submission succeeded; the *)
(* payload then carries the signature the node returned for it under       *)
(* "signature" (and "tree_pubkey" for create-tree); in every other case    *)
(* the result is a Failure.                                                *)
(***************************************************************************)
LocalValid(c) ==
  /\ PayerParses(c.args)
  /\ \A text \in AddressTexts(c) : AddressParses(text)

FetchedAndSubmitted(t) ==
  /\ Len(rpc[t]) = 2
  /\ rpc[t][1].method = "get_latest_blockhash"
  /\ rpc[t][1].response # None /\ rpc[t][1].response[1].ok
  /\ rpc[t][2].method = "send_and_confirm_transaction"
  /\ rpc[t][2].response # None /\ rpc[t][2].response[1].ok

SuccessPayload(t) ==
  LET fields == ret[t][1].entries.ok.entries
  IN  /\ fields.signature = Signature_to_string(rpc[t][2].response[1].val)
      /\ IF call[t].op = "create_tree_config"
           THEN /\ DOMAIN fields = {"tree_pubkey", "signature"}
                /\ fields.tree_pubkey = Bs58Encode(loc[t].tree_keypair[1].public)
           ELSE DOMAIN fields = {"signature"}

Finished(t) == mode[t] \in {"returned", "panicked"}

SuccessIff(t) ==
  IF LocalValid(call[t]) /\ FetchedAndSubmitted(t)
    THEN ReturnedSuccess(t) /\ SuccessPayload(t)
    ELSE ReturnedFailure(t)

C14_SuccessIff ==
  \A t \in Threads : Finished(t) => SuccessIff(t)

\* The same, over the calls whose metadata is well-formed.
C14_ExceptMalformedMetadata ==
  \A t \in Threads : (Finished(t) /\ ~MalformedMetadata(call[t])) => SuccessIff(t)

\* A mint has returned Success.
C14_SuccessReached ==
  \E t \in Threads : ReturnedSuccess(t) /\ call[t].op = "mint_to_collection_v1"

(***************************************************************************)
(* C15: create_tree_config generates the tree key pair once per call, and  *)
(* only after the payer key has parsed; the key's address is the tree      *)
(* account of the instruction, the key is the one extra signer of the one  *)
(* transaction the call submits, and the tree_pubkey returned on Success   *)
(* is that address.  The key signs at most once and no later call has it.  *)
(***************************************************************************)
TimesRan(t, name) ==
  Cardinality({i \in 1..Len(trace[t]) : trace[t][i][1] = name})

TreeKeyLifecycle(t) ==
  /\ TimesRan(t, "Keypair_new") <= 1
  /\ loc[t].tree_keypair # None <=> Ran(t, "Keypair_new")
  /\ Ran(t, "Keypair_new") =>
       /\ <<"parse_keypair">> \in Before(t, "Keypair_new")
       /\ loc[t].payer # None
  /\ loc[t].ix # None =>
       loc[t].ix[1].fields.merkle_tree = loc[t].tree_keypair[1].public
  /\ TimesRan(t, "sign") <= 1
  /\ loc[t].transaction # None =>
       /\ Len(loc[t].transaction[1].signed_by) = 2
       /\ loc[t].transaction[1].signed_by[2] = loc[t].tree_keypair[1].public
       /\ loc[t].transaction[1].instructions[1].fields.merkle_tree =
            loc[t].tree_keypair[1].public
  /\ \A i \in 1..Len(rpc[t]) :
       rpc[t][i].method = "send_and_confirm_transaction" =>
         /\ i = 2
         /\ rpc[t][i].transaction = loc[t].transaction
  /\ ReturnedSuccess(t) =>
       ret[t][1].entries.ok.entries.tree_pubkey =
         Bs58Encode(loc[t].tree_keypair[1].public)

C15_TreeKeyLifecycle ==
  \A t \in Threads :
    IF call[t].op = "create_tree_config"
      THEN TreeKeyLifecycle(t)
      ELSE loc[t].tree_keypair = None

\* A create-tree made with the second of the fresh keys has returned Success.
C15_Witness ==
  \E t \in Threads :
    /\ call[t].op = "create_tree_config"
    /\ ReturnedSuccess(t)
    /\ loc[t].tree_keypair[1].public = PublicHalf(TreeKeyBytes2)

(***************************************************************************)
(* C16: convert_metadata_args gives no collection exactly when the input   *)
(* has none; a collection given has the parsed input address as its key    *)
(* and verified = false, whatever the input.                               *)
(***************************************************************************)
C16_CollectionTranslated ==
  \A t \in Threads :
    loc[t].metadata # None =>
      LET input == call[t].args.metadata_args.collection
          output == loc[t].metadata[1].collection
      IN  /\ input = None <=> output = None
          /\ input # None =>
               /\ Len(output) = 1
               /\ Ok(output[1].key) = PubkeyOfDecoded(Bs58Decode(input[1]))
               /\ output[1].verified = FALSE

\* Metadata naming a collection has been translated, for creators that are
\* verified in the input.
C16_Witness ==
  \E t \in Threads :
    /\ loc[t].metadata # None
    /\ call[t].args.metadata_args.collection # None
    /\ loc[t].metadata[1].collection # None
    /\ \E i \in 1..Len(call[t].args.metadata_args.creators) :
         call[t].args.metadata_args.creators[i].verified

\* Metadata naming no collection has been translated.
C16_AbsentReached ==
  \E t \in Threads :
    /\ loc[t].metadata # None
    /\ call[t].args.metadata_args.collection = None

(***************************************************************************)
(* C17: the transaction of a transfer is signed by the payer alone: the    *)
(* leaf owner is in the instruction as a non-signer and is not among the   *)
(* signers, also where its address is not the payer's.  The transaction of *)
(* a mint is signed by the payer alone, and the payer's address is the     *)
(* tree creator or delegate and the collection authority.                  *)
(***************************************************************************)
SignedByPayerOnly(t) ==
  /\ loc[t].transaction # None =>
       loc[t].transaction[1].signed_by = <<PayerAddress(call[t].args)>>
  /\ \A i \in 1..Len(rpc[t]) :
       rpc[t][i].method = "send_and_confirm_transaction" =>
         rpc[t][i].transaction[1].signed_by = <<PayerAddress(call[t].args)>>

LeafOwnerAddress(args) == PubkeyOfDecoded(Bs58Decode(args.leaf_owner_str)).val

TransferPayerOnly(t) ==
  /\ SignedByPayerOnly(t)
  /\ loc[t].ix # None =>
       /\ loc[t].ix[1].fields.leaf_owner.pubkey = LeafOwnerAddress(call[t].args)
       /\ loc[t].ix[1].fields.leaf_owner.as_signer = FALSE
  /\ (loc[t].transaction # None
      /\ LeafOwnerAddress(call[t].args) # PayerAddress(call[t].args)) =>
       \A i \in 1..Len(loc[t].transaction[1].signed_by) :
         loc[t].transaction[1].signed_by[i] # LeafOwnerAddress(call[t].args)

MintPayerOnly(t) ==
  /\ SignedByPayerOnly(t)
  /\ loc[t].ix # None =>
       /\ loc[t].ix[1].fields.payer = PayerAddress(call[t].args)
       /\ loc[t].ix[1].fields.tree_creator_or_delegate = PayerAddress(call[t].args)
       /\ loc[t].ix[1].fields.collection_authority = PayerAddress(call[t].args)

C17_PayerOnlySigns ==
  \A t \in Threads :
    /\ call[t].op = "transfer" => TransferPayerOnly(t)
    /\ call[t].op = "mint_to_collection_v1" => MintPayerOnly(t)

\* A transfer of a leaf whose owner is not the payer has been submitted.
C17_Witness ==
  \E t \in Threads :
    /\ call[t].op = "transfer"
    /\ NetworkCalls(t, "send_and_confirm_transaction") = 1
    /\ LeafOwnerAddress(call[t].args) # PayerAddress(call[t].args)

\* A mint has been submitted.
C17_MintReached ==
  \E t \in Threads :
    /\ call[t].op = "mint_to_collection_v1"
    /\ NetworkCalls(t, "send_and_confirm_transaction") = 1

(***************************************************************************)
(* C18: the canopy depth given to create_tree_config has no effect: two    *)
(* create-tree calls that differ in the canopy depth only, with the same   *)
(* tree key and the same answers of the node, build the same instruction,  *)
(* submit the same transaction and return the same result; the instruction *)
(* is determined by payer, tree key, max_depth, max_buffer_size and public *)
(* alone.                                                                  *)
(***************************************************************************)
SameButCanopyDepth(a1, a2) ==
  /\ a1.payer_keypair_bs58 = a2.payer_keypair_bs58
  /\ a1.max_depth = a2.max_depth
  /\ a1.max_buffer_size = a2.max_buffer_size
  /\ a1.public = a2.public
  /\ a1.rpc_url = a2.rpc_url

Answers(t) == [i \in 1..Len(rpc[t]) |-> rpc[t][i].response]

CanopyDepthIgnored(t1, t2) ==
  /\ (loc[t1].ix # None /\ loc[t2].ix # None) => loc[t1].ix = loc[t2].ix
  /\ (/\ loc[t1].transaction # None /\ loc[t2].transaction # None
      /\ loc[t1].recent_blockhash = loc[t2].recent_blockhash) =>
       loc[t1].transaction = loc[t2].transaction
  /\ \A i \in 1..Len(rpc[t1]) : \A j \in 1..Len(rpc[t2]) :
       (/\ rpc[t1][i].method = "send_and_confirm_transaction"
        /\ rpc[t2][j].method = "send_and_confirm_transaction"
        /\ Answers(t1)[1] = Answers(t2)[1]) =>
         rpc[t1][i].transaction = rpc[t2][j].transaction
  /\ (mode[t1] = "returned" /\ mode[t2] = "returned" /\ Answers(t1) = Answers(t2)) =>
       ret[t1] = ret[t2]

CreateTreeInstructionOf(t) ==
  [payer |-> PayerAddress(call[t].args),
   merkle_tree |-> loc[t].tree_keypair[1].public,
   tree_creator |-> PayerAddress(call[t].args),
   max_depth |-> call[t].args.max_depth,
   max_buffer_size |-> call[t].args.max_buffer_size,
   public |-> call[t].args.public]

C18_CanopyDepthIgnored ==
  /\ \A t \in Threads :
       (call[t].op = "create_tree_config" /\ loc[t].ix # None) =>
         loc[t].ix[1].fields = CreateTreeInstructionOf(t)
  /\ \A t1, t2 \in Threads :
       (/\ call[t1].op = "create_tree_config" /\ call[t2].op = "create_tree_config"
        /\ SameButCanopyDepth(call[t1].args, call[t2].args)
        /\ loc[t1].tree_keypair = loc[t2].tree_keypair) =>
         CanopyDepthIgnored(t1, t2)

\* Two create-trees that differ in the canopy depth, with the same tree key
\* and the same answers, have both returned Success.
C18_Witness ==
  \E t1, t2 \in Threads :
    /\ call[t1].op = "create_tree_config" /\ call[t2].op = "create_tree_config"
    /\ SameButCanopyDepth(call[t1].args, call[t2].args)
    /\ call[t1].args.canopy_depth # call[t2].args.canopy_depth
    /\ loc[t1].tree_keypair # None
    /\ loc[t1].tree_keypair = loc[t2].tree_keypair
    /\ Answers(t1) = Answers(t2)
    /\ ReturnedSuccess(t1) /\ ReturnedSuccess(t2)

====
